---- MODULE Spec2Model ----
(***************************************************************************)
(* The URL scraper service of src/public/script.js: the in-memory result   *)
(* cache `scrapedResults` (a JavaScript Map) behind the express routes     *)
(* POST /scrape, GET /results, DELETE /results and GET /health, and the    *)
(* message the browser client shows for a response.                        *)
(*                                                                         *)
(* Node runs each handler to completion between awaits, so one action is   *)
(* one run-to-completion segment of a handler: POST /scrape is split at    *)
(* its single `await scrapeWebpage(url)` into the part before it           *)
(* (ScrapeMissing / ScrapeInvalid / ScrapeCached / ScrapeBegin) and the    *)
(* part after it (ScrapeDone / ScrapeFail); the other routes are one       *)
(* segment each.                                                           *)
(***************************************************************************)
EXTENDS Integers, Sequences, FiniteSets

VARIABLES
    scrapedResults, \* the Map: sequence of entries [key, value, born], in Map iteration order
    pending,        \* url -> number of /scrape handlers suspended in `await scrapeWebpage(url)`
    nreq,           \* number of POST /scrape requests received so far
    tick,           \* history: number of entries created so far (stamps `born`)
    last,           \* history: the handler segment that ran last and what it answered
    shownFor,       \* history: per failure kind, the message the client showed for it last
    doc,            \* the extractor's input: the parsed document, a sequence of elements
    extracted,      \* the fields scrapeWebpage extracted from doc (done says whether it ran)
    client,         \* the browser page: the URLScraper object and what its elements show
    net             \* the page's requests in flight and the answers on their way back

serverVars == <<scrapedResults, pending, nreq, tick, last, shownFor>>

(* The variables the server's routes leave alone *)
otherVars == <<doc, extracted, client, net>>

vars == <<serverVars, otherVars>>

----------------------------------------------------------------------------
(* Bounds of the model *)

MaxRequests == 2      \* POST /scrape requests per behaviour
MaxInFlight == 2      \* handlers suspended in the fetch at the same time
MaxPages == 2         \* distinct contents a fetch of one URL can return over time
ExtraSites == 1       \* sites requested beyond the ones the cache starts with

(* Program constant: `if (scrapedResults.size > 50)` *)
Capacity == 50

----------------------------------------------------------------------------
(* URL strings.  A URL string is modelled by its parts <<scheme, site,     *)
(* path>>: "http://siteN" is <<"http", N, "">>, "http://siteN/" is         *)
(* <<"http", N, "/">>, "siteN" (no scheme) is <<"", N, "">> and the empty  *)
(* string is <<"", 0, "">>.  Two tuples are the same string iff equal.     *)

EmptyUrl == <<"", 0, "">>

Url(n) == <<"http", n, "">>

UrlSlash(n) == <<"http", n, "/">>

NoScheme(n) == <<"", n, "">>

Sites == 1..(Capacity + ExtraSites)

(* `!url` of the handler: true of the empty string (and of a missing field) *)
IsFalsy(u) == u = EmptyUrl

(* `new URL(url)` succeeds: the string has a scheme and a host *)
IsValidUrl(u) == u[1] # "" /\ u[2] \in Sites

(* `new URL(url).hostname` *)
Hostname(u) == u[2]

(* The URL strings requests carry in this model: the empty string, a       *)
(* string without scheme, the oldest pre-loaded URL in two spellings that  *)
(* name the same page, and URLs of sites the cache does not start with.    *)
RequestUrls ==
    {EmptyUrl, NoScheme(1), Url(1), UrlSlash(1)}
        \cup {Url(n) : n \in (Capacity + 1)..(Capacity + ExtraSites)}

FetchableUrls == {u \in RequestUrls : ~IsFalsy(u) /\ IsValidUrl(u)}

Pages == 1..MaxPages

----------------------------------------------------------------------------
(* The JavaScript Map `scrapedResults` *)

MapKeys(m) == {m[i].key : i \in 1..Len(m)}

MapHas(m, k) == k \in MapKeys(m)

MapIndex(m, k) == CHOOSE i \in 1..Len(m) : m[i].key = k

MapGet(m, k) == m[MapIndex(m, k)].value

(* Variant: set as delete-then-append, an existing key moves to the end *)
MapSet_MoveToEnd(m, k, v, t) ==
    Append(SelectSeq(m, LAMBDA e : e.key # k), [key |-> k, value |-> v, born |-> t])

(* Map.prototype.set: an existing key keeps its place and gets the new     *)
(* value; a new key is appended.  `t` stamps a new entry (history only).   *)
MapSet(m, k, v, t) ==
    IF MapHas(m, k)
    THEN [m EXCEPT ![MapIndex(m, k)].value = v]
    ELSE Append(m, [key |-> k, value |-> v, born |-> t])

(* Variant: the key inserted last instead of first *)
MapFirstKey_Newest(m) == m[Len(m)].key

(* scrapedResults.keys().next().value *)
MapFirstKey(m) == m[1].key

(* Map.prototype.delete *)
MapDelete(m, k) == SelectSeq(m, LAMBDA e : e.key # k)

(* Variant: most recent first *)
MapValues_NewestFirst(m) == [i \in 1..Len(m) |-> m[Len(m) + 1 - i].value]

(* Array.from(m.values()) *)
MapValues(m) == [i \in 1..Len(m) |-> m[i].value]

(* "Clean up old results (keep only last 50)" *)
Evict(m) == IF Len(m) > Capacity THEN MapDelete(m, MapFirstKey(m)) ELSE m

----------------------------------------------------------------------------
(* scrapeWebpage *)

NoRecord == [url |-> EmptyUrl, domain |-> 0, page |-> 0]

(* Variant: the record carries the canonical spelling of the URL *)
ScrapeWebpage_Canonical(u, p) == [url |-> <<"http", u[2], "">>, domain |-> u[2], page |-> p]

(* The result object of a successful fetch that returned content `p` *)
ScrapeWebpage(u, p) == [url |-> u, domain |-> Hostname(u), page |-> p]

(* What axios.get can fail with *)
ErrorCodes == {"ENOTFOUND", "ECONNREFUSED", "ETIMEDOUT", "ECONNABORTED", "HTTP404"}

(* The message of the Error scrapeWebpage's catch block throws *)
ScrapeErrorMessage(code) ==
    CASE code = "ENOTFOUND" -> "Website not found. Please check the URL."
      [] code = "ECONNREFUSED" -> "Connection refused. The website may be down."
      [] code = "ETIMEDOUT" -> "Request timed out. The website is taking too long to respond."
      [] code = "HTTP404" -> "HTTP 404: Not Found"
      [] OTHER -> "Failed to scrape webpage: timeout of 15000ms exceeded"

----------------------------------------------------------------------------
(* The client: the message handleSubmit shows for a /scrape response *)

HandleSubmitMessage(status, error) ==
    IF status = 200
    THEN "Webpage analysis completed successfully!"
    ELSE IF error # "" THEN error ELSE "Failed to scrape webpage"

FailureKinds == {"invalid", "unreachable", "timeout", "non2xx"}

NoneShown == [k \in FailureKinds |-> ""]

----------------------------------------------------------------------------
(* Initial states.  The Map is empty after construction; the behaviours    *)
(* that start with a loaded cache start in the state that scraping         *)
(* http://site1 .. http://siteN one after the other leaves.                *)

Loaded(n) == [i \in 1..n |-> [key |-> Url(i), value |-> ScrapeWebpage(Url(i), 1), born |-> i]]

InitSizes == {0, Capacity - 1, Capacity}

(* What the segment that ran last answered (op says which segment), with   *)
(* the Map and the suspended fetches as they were when it started, and     *)
(* the Map a DELETE /results emptied if that was the segment before it.    *)
Response(op, u, status, rec, list, error, details, size) ==
    [op |-> op, url |-> u, status |-> status, record |-> rec, list |-> list,
     error |-> error, details |-> details, size |-> size,
     before |-> scrapedResults, waiting |-> pending,
     cleared |-> IF last.op = "clear" THEN last.before ELSE <<>>]

(* The extractor before it ran *)
NoExtract ==
    [done |-> FALSE, title |-> <<>>, description |-> <<>>, metaTags |-> <<>>,
     images |-> <<>>, links |-> <<>>, headings |-> <<>>, paragraphs |-> <<>>]

(* No page is open *)
NoClient == [loading |-> FALSE]

NoNet == [clear |-> "none"]

NoResponse ==
    [op |-> "none", url |-> EmptyUrl, status |-> 0, record |-> NoRecord, list |-> <<>>,
     error |-> "", details |-> "", size |-> 0,
     before |-> <<>>, waiting |-> [u \in FetchableUrls |-> 0], cleared |-> <<>>]

Init ==
    /\ \E n \in InitSizes : scrapedResults = Loaded(n) /\ tick = n
    /\ pending = [u \in FetchableUrls |-> 0]
    /\ nreq = 0
    /\ last = NoResponse
    /\ shownFor = NoneShown
    /\ doc = <<>>
    /\ extracted = NoExtract
    /\ client = NoClient
    /\ net = NoNet

InFlight == LET Sum[S \in SUBSET FetchableUrls] ==
                    IF S = {} THEN 0
                    ELSE LET u == CHOOSE x \in S : TRUE
                         IN pending[u] + Sum[S \ {u}]
            IN Sum[FetchableUrls]

Shown(kind, status, error) == [shownFor EXCEPT ![kind] = HandleSubmitMessage(status, error)]

----------------------------------------------------------------------------
(* POST /scrape, up to the await *)

(* if (!url) return res.status(400).json({ error: 'URL is required' }) *)
ScrapeMissing(u) ==
    /\ nreq < MaxRequests
    /\ IsFalsy(u)
    /\ nreq' = nreq + 1
    /\ last' = Response("reject", u, 400, NoRecord, <<>>, "URL is required", "", 0)
    /\ UNCHANGED <<scrapedResults, pending, tick, shownFor, otherVars>>

(* new URL(url) throws: 400 'Invalid URL format' *)
ScrapeInvalid(u) ==
    /\ nreq < MaxRequests
    /\ ~IsFalsy(u)
    /\ ~IsValidUrl(u)
    /\ nreq' = nreq + 1
    /\ last' = Response("reject", u, 400, NoRecord, <<>>, "Invalid URL format", "", 0)
    /\ shownFor' = Shown("invalid", 400, "Invalid URL format")
    /\ UNCHANGED <<scrapedResults, pending, tick, otherVars>>

(* Variant: a hit refreshes the entry's position, as an LRU cache would *)
ScrapeCached_Refresh(u) ==
    /\ nreq < MaxRequests
    /\ u \in {k \in {scrapedResults[i].key : i \in 1..Len(scrapedResults)} : k[1] # ""}
    /\ nreq' = nreq + 1
    /\ scrapedResults' =
          LET e == CHOOSE x \in {scrapedResults[i] : i \in 1..Len(scrapedResults)} : x.key = u
          IN Append(SelectSeq(scrapedResults, LAMBDA x : x.key # u), e)
    /\ last' = [op |-> "hit", url |-> u, status |-> 200,
                record |-> (CHOOSE x \in {scrapedResults[i] : i \in 1..Len(scrapedResults)} :
                                x.key = u).value,
                list |-> <<>>, error |-> "", details |-> "", size |-> 0,
                before |-> scrapedResults, waiting |-> pending,
                cleared |-> IF last.op = "clear" THEN last.before ELSE <<>>]
    /\ UNCHANGED <<pending, tick, shownFor, otherVars>>

(* if (scrapedResults.has(url)) return res.json(scrapedResults.get(url)) *)
ScrapeCached(u) ==
    /\ nreq < MaxRequests
    /\ ~IsFalsy(u)
    /\ IsValidUrl(u)
    /\ MapHas(scrapedResults, u)
    /\ nreq' = nreq + 1
    /\ last' = Response("hit", u, 200, MapGet(scrapedResults, u), <<>>, "", "", 0)
    /\ UNCHANGED <<scrapedResults, pending, tick, shownFor, otherVars>>

(* cache miss: the handler suspends in `await scrapeWebpage(url)` *)
ScrapeBegin(u) ==
    /\ nreq < MaxRequests
    /\ InFlight < MaxInFlight
    /\ ~IsFalsy(u)
    /\ IsValidUrl(u)
    /\ ~MapHas(scrapedResults, u)
    /\ nreq' = nreq + 1
    /\ pending' = [pending EXCEPT ![u] = @ + 1]
    /\ last' = Response("begin", u, 0, NoRecord, <<>>, "", "", 0)
    /\ UNCHANGED <<scrapedResults, tick, shownFor, otherVars>>

----------------------------------------------------------------------------
(* POST /scrape, after the await *)

(* Variant: the clean-up after the insertion is left out *)
Store_NoCleanup(m, u, rec, t) ==
    IF u \in {m[i].key : i \in 1..Len(m)}
    THEN [i \in 1..Len(m) |-> IF m[i].key = u THEN [m[i] EXCEPT !.value = rec] ELSE m[i]]
    ELSE Append(m, [key |-> u, value |-> rec, born |-> t])

(* scrapedResults.set(url, scrapedData); if (size > 50) delete first key *)
Store(m, u, rec, t) == Evict(MapSet(m, u, rec, t))

(* scrapeWebpage resolved: store, clean up, res.json(scrapedData) *)
ScrapeDone(u, p) ==
    /\ pending[u] > 0
    /\ pending' = [pending EXCEPT ![u] = @ - 1]
    /\ scrapedResults' = Store(scrapedResults, u, ScrapeWebpage(u, p), tick + 1)
    /\ tick' = IF MapHas(scrapedResults, u) THEN tick ELSE tick + 1
    /\ last' = Response("done", u, 200, ScrapeWebpage(u, p), <<>>, "", "", 0)
    /\ UNCHANGED <<nreq, shownFor, otherVars>>

FailureKind(code) ==
    CASE code \in {"ENOTFOUND", "ECONNREFUSED"} -> "unreachable"
      [] code \in {"ETIMEDOUT", "ECONNABORTED"} -> "timeout"
      [] OTHER -> "non2xx"

(* Variant: the failed request leaves an empty record under its URL *)
ScrapeFail_Stores(u, code) ==
    /\ pending[u] > 0
    /\ pending' = [pending EXCEPT ![u] = @ - 1]
    /\ scrapedResults' = Append(SelectSeq(scrapedResults, LAMBDA x : x.key # u),
                                [key |-> u, value |-> NoRecord, born |-> tick + 1])
    /\ tick' = tick + 1
    /\ last' = [op |-> "fail", url |-> u, status |-> 500, record |-> NoRecord,
                list |-> <<>>, error |-> "Failed to scrape webpage", details |-> "",
                size |-> 0, before |-> scrapedResults, waiting |-> pending,
                cleared |-> IF last.op = "clear" THEN last.before ELSE <<>>]
    /\ UNCHANGED <<nreq, shownFor, otherVars>>

(* scrapeWebpage threw: the handler's catch answers 500 *)
ScrapeFail(u, code) ==
    /\ pending[u] > 0
    /\ pending' = [pending EXCEPT ![u] = @ - 1]
    /\ last' = Response("fail", u, 500, NoRecord, <<>>, "Failed to scrape webpage",
                        ScrapeErrorMessage(code), 0)
    /\ shownFor' = Shown(FailureKind(code), 500, "Failed to scrape webpage")
    /\ UNCHANGED <<scrapedResults, nreq, tick, otherVars>>

----------------------------------------------------------------------------
(* The other routes *)

(* GET /results *)
GetResults ==
    /\ last' = Response("results", EmptyUrl, 200, NoRecord, MapValues(scrapedResults),
                        "", "", 0)
    /\ UNCHANGED <<scrapedResults, pending, nreq, tick, shownFor, otherVars>>

(* Variant: only the oldest entry is removed *)
DeleteResults_OnlyOldest ==
    /\ scrapedResults' = IF scrapedResults = <<>> THEN <<>> ELSE Tail(scrapedResults)
    /\ last' = [op |-> "clear", url |-> EmptyUrl, status |-> 200, record |-> NoRecord,
                list |-> <<>>, error |-> "", details |-> "", size |-> 0,
                before |-> scrapedResults, waiting |-> pending,
                cleared |-> IF last.op = "clear" THEN last.before ELSE <<>>]
    /\ UNCHANGED <<pending, nreq, tick, shownFor, otherVars>>

(* DELETE /results *)
DeleteResults ==
    /\ scrapedResults' = <<>>
    /\ last' = Response("clear", EmptyUrl, 200, NoRecord, <<>>, "", "", 0)
    /\ UNCHANGED <<pending, nreq, tick, shownFor, otherVars>>

(* GET /health *)
Health ==
    /\ last' = Response("health", EmptyUrl, 200, NoRecord, <<>>, "", "",
                        Len(scrapedResults))
    /\ UNCHANGED <<scrapedResults, pending, nreq, tick, shownFor, otherVars>>

Next ==
    \/ \E u \in RequestUrls : ScrapeMissing(u)
    \/ \E u \in RequestUrls : ScrapeInvalid(u)
    \/ \E u \in RequestUrls : ScrapeCached(u)
    \/ \E u \in RequestUrls : ScrapeBegin(u)
    \/ \E u \in FetchableUrls, p \in Pages : ScrapeDone(u, p)
    \/ \E u \in FetchableUrls, code \in ErrorCodes : ScrapeFail(u, code)
    \/ GetResults
    \/ DeleteResults
    \/ Health

Spec == Init /\ [][Next]_vars

----------------------------------------------------------------------------
(* Text.  A JavaScript string is the sequence of its characters, each a    *)
(* one-character string; the empty sequence also stands for an attribute   *)
(* that is absent (every test the extractor makes on an attribute treats   *)
(* undefined and "" alike).                                                *)

UpperCase == <<"A", "B", "C", "D", "E", "F", "G", "H", "I", "J", "K", "L", "M", "N", "O", "P", "Q", "R", "S", "T", "U", "V", "W", "X", "Y", "Z">>

LowerCase == <<"a", "b", "c", "d", "e", "f", "g", "h", "i", "j", "k", "l", "m", "n", "o", "p", "q", "r", "s", "t", "u", "v", "w", "x", "y", "z">>

Digits == <<"0", "1", "2", "3", "4", "5", "6", "7", "8", "9">>

IsSpace(c) == c \in {" ", "\t", "\n"}

(* text ? text.trim().replace(/\s+/g, ' ') : '' *)
cleanText(text) ==
    LET keep(i) == ~IsSpace(text[i]) \/ (i > 1 /\ ~IsSpace(text[i - 1]))
        idx == SelectSeq([i \in 1..Len(text) |-> i], keep)
        r == [j \in 1..Len(idx) |-> IF IsSpace(text[idx[j]]) THEN " " ELSE text[idx[j]]]
    IN  IF r # <<>> /\ r[Len(r)] = " " THEN SubSeq(r, 1, Len(r) - 1) ELSE r

(* String.prototype.includes *)
Includes(s, sub) ==
    \E i \in 1..(Len(s) - Len(sub) + 1) : SubSeq(s, i, i + Len(sub) - 1) = sub

(* String.prototype.startsWith *)
StartsWith(s, p) == Len(s) >= Len(p) /\ SubSeq(s, 1, Len(p)) = p

(* String.prototype.toLowerCase *)
ToLowerCase(s) ==
    [i \in 1..Len(s) |->
        IF \E k \in 1..Len(UpperCase) : UpperCase[k] = s[i]
        THEN LowerCase[CHOOSE k \in 1..Len(UpperCase) : UpperCase[k] = s[i]]
        ELSE s[i]]

(* Array.prototype.slice(0, n) *)
Slice(s, n) == IF Len(s) <= n THEN s ELSE SubSeq(s, 1, n)

----------------------------------------------------------------------------
(* URLs of the fetched page: new URL(...) as far as the extractor uses it  *)

IndexOf(s, c) ==
    IF \E i \in 1..Len(s) : s[i] = c
    THEN CHOOSE i \in 1..Len(s) : s[i] = c /\ \A j \in 1..(i - 1) : s[j] # c
    ELSE 0

IsLetter(c) ==
    \E k \in 1..Len(UpperCase) : c = UpperCase[k] \/ c = LowerCase[k]

(* The string starts with a URL scheme: a letter, then letters, digits,   *)
(* "+", "-" or ".", then ":"                                               *)
HasScheme(s) ==
    LET k == IndexOf(s, ":")
    IN  /\ k > 1
        /\ IsLetter(s[1])
        /\ \A i \in 2..(k - 1) :
               \/ IsLetter(s[i])
               \/ s[i] \in {"+", "-", "."}
               \/ \E d \in 1..Len(Digits) : s[i] = Digits[d]

(* new URL(u).protocol, for u = scheme://host... *)
UrlProtocol(u) == SubSeq(u, 1, IndexOf(u, ":"))

(* new URL(u).host *)
UrlHost(u) ==
    LET rest == SubSeq(u, IndexOf(u, ":") + 3, Len(u))
        k == IndexOf(rest, "/")
    IN  IF k = 0 THEN rest ELSE SubSeq(rest, 1, k - 1)

(* new URL(u).origin *)
UrlOrigin(u) == UrlProtocol(u) \o <<"/", "/">> \o UrlHost(u)

(* new URL(rel, base).href for a base that is an origin: [ok, href].  A   *)
(* string with a scheme is parsed on its own, and one whose host opens a   *)
(* bracket that never closes ("x://[") makes the constructor throw; any    *)
(* other string with a scheme is its own href.  A string without scheme is *)
(* a path below the origin, a leading "./" removed.                        *)
ResolveUrl(rel, base) ==
    IF HasScheme(rel)
    THEN IF Includes(rel, <<":", "/", "/", "[">>)
         THEN [ok |-> FALSE, href |-> <<>>]
         ELSE [ok |-> TRUE, href |-> rel]
    ELSE LET path == IF StartsWith(rel, <<".", "/">>) THEN SubSeq(rel, 3, Len(rel)) ELSE rel
         IN  [ok |-> TRUE, href |-> UrlOrigin(base) \o <<"/">> \o path]

----------------------------------------------------------------------------
(* The parsed document: the sequence of its elements in document order.    *)
(* An element has its tag, its attributes and its text content.            *)

Element(tag, name, property, content, src, dataSrc, dataLazy, alt, href, text) ==
    [tag |-> tag, name |-> name, property |-> property, content |-> content,
     src |-> src, dataSrc |-> dataSrc, dataLazy |-> dataLazy, alt |-> alt,
     href |-> href, text |-> text]

(* $(selector): the elements with one of the tags, in document order *)
SelectTags(d, tags) == SelectSeq(d, LAMBDA e : e.tag \in tags)

(* a || b on strings *)
OrElse(a, b) == IF a # <<>> THEN a ELSE b

----------------------------------------------------------------------------
(* The extraction rules *)

ImageCap == 10
LinkCap == 20
HeadingCap == 15
ParagraphCap == 10

(* extractMetaTags: the object as the sequence of its properties [key,    *)
(* value]; metaTags[name] = content replaces the value of a key that is    *)
(* there and adds a key that is not.                                       *)
extractMetaTags(d) ==
    LET metas == SelectTags(d, {"meta"})
        Meta[i \in 0..Len(metas)] ==
            IF i = 0 THEN <<>>
            ELSE LET key == IF metas[i].name # "" THEN metas[i].name ELSE metas[i].property
                     acc == Meta[i - 1]
                 IN  IF key # "" /\ metas[i].content # <<>>
                     THEN IF \E j \in 1..Len(acc) : acc[j].key = key
                          THEN [j \in 1..Len(acc) |->
                                   IF acc[j].key = key
                                   THEN [key |-> key, value |-> metas[i].content]
                                   ELSE acc[j]]
                          ELSE Append(acc, [key |-> key, value |-> metas[i].content])
                     ELSE acc
    IN  Meta[Len(metas)]

(* The resolved source of an image or link: [ok, href] *)
ResolveSrc(src, baseUrl, passThrough) ==
    IF StartsWith(src, <<"/">>)
    THEN [ok |-> TRUE, href |-> UrlProtocol(baseUrl) \o <<"/", "/">> \o UrlHost(baseUrl) \o src]
    ELSE IF \E p \in passThrough : StartsWith(src, p)
         THEN [ok |-> TRUE, href |-> src]
         ELSE ResolveUrl(src, baseUrl)

(* The filter on an image's resolved source and alt text *)
ImageOk(src, alt) ==
    /\ ~Includes(src, <<"i", "c", "o", "n">>)
    /\ ~Includes(src, <<"l", "o", "g", "o">>)
    /\ ~Includes(src, <<"f", "a", "v", "i", "c", "o", "n">>)
    /\ ~Includes(src, <<"p", "i", "x", "e", "l">>)
    /\ ~Includes(ToLowerCase(alt), <<"i", "c", "o", "n">>)
    /\ ~Includes(ToLowerCase(alt), <<"l", "o", "g", "o">>)

(* One turn of the $('img').each callback on the state [images, seen] *)
ImageStep(acc, img, baseUrl) ==
    LET src == OrElse(img.src, OrElse(img.dataSrc, img.dataLazy))
        r == ResolveSrc(src, baseUrl, {<<"h", "t", "t", "p">>})
    IN  IF src # <<>> /\ src \notin acc.seen /\ r.ok /\ ImageOk(r.href, img.alt)
        THEN [images |-> Append(acc.images, [src |-> r.href, alt |-> cleanText(img.alt)]),
              seen |-> acc.seen \cup {r.href}]
        ELSE acc

ImagesPushed(d, baseUrl) ==
    LET imgs == SelectTags(d, {"img"})
        Loop[i \in 0..Len(imgs)] ==
            IF i = 0 THEN [images |-> <<>>, seen |-> {}]
            ELSE ImageStep(Loop[i - 1], imgs[i], baseUrl)
    IN  Loop[Len(imgs)].images

(* extractImages *)
extractImages(d, baseUrl) == Slice(ImagesPushed(d, baseUrl), ImageCap)

(* Variant: texts of 3 and of 100 characters pass *)
LinkTextOk_Inclusive(text) == Len(text) >= 3 /\ Len(text) <= 100

(* text.length > 3 && text.length < 100 *)
LinkTextOk(text) == Len(text) > 3 /\ Len(text) < 100

(* One turn of the $('a[href]').each callback on the state [links, seen] *)
LinkStep(acc, link, baseUrl) ==
    LET text == cleanText(link.text)
        r == ResolveSrc(link.href, baseUrl, {<<"h", "t", "t", "p">>, <<"m", "a", "i", "l", "t", "o">>, <<"t", "e", "l">>})
    IN  IF link.href # <<>> /\ text # <<>> /\ link.href \notin acc.seen /\ r.ok
             /\ LinkTextOk(text)
        THEN [links |-> Append(acc.links, [href |-> r.href, text |-> text]),
              seen |-> acc.seen \cup {r.href}]
        ELSE acc

LinksPushed(d, baseUrl) ==
    LET as == SelectTags(d, {"a"})
        Loop[i \in 0..Len(as)] ==
            IF i = 0 THEN [links |-> <<>>, seen |-> {}]
            ELSE LinkStep(Loop[i - 1], as[i], baseUrl)
    IN  Loop[Len(as)].links

(* Variant: the limit is left out *)
extractLinks_NoLimit(d, baseUrl) == LinksPushed(d, baseUrl)

(* extractLinks *)
extractLinks(d, baseUrl) == Slice(LinksPushed(d, baseUrl), LinkCap)

HeadingTags == {"h1", "h2", "h3", "h4", "h5", "h6"}

(* The callback of $('h1, ..., h6').each: the headings pushed for hs *)
HeadingsPushed(hs) ==
    LET Loop[i \in 0..Len(hs)] ==
            IF i = 0 THEN <<>>
            ELSE LET text == cleanText(hs[i].text)
                 IN  IF text # <<>> /\ Len(text) > 2
                     THEN Append(Loop[i - 1], [level |-> hs[i].tag, text |-> text])
                     ELSE Loop[i - 1]
    IN  Loop[Len(hs)]

(* Variant: the limit is applied to the elements, before the filter *)
extractHeadings_LimitFirst(d) == HeadingsPushed(Slice(SelectTags(d, HeadingTags), HeadingCap))

(* extractHeadings *)
extractHeadings(d) == Slice(HeadingsPushed(SelectTags(d, HeadingTags)), HeadingCap)

ParagraphsPushed(ps) ==
    LET Loop[i \in 0..Len(ps)] ==
            IF i = 0 THEN <<>>
            ELSE LET text == cleanText(ps[i].text)
                 IN  IF text # <<>> /\ Len(text) > 20 /\ Len(text) < 500
                     THEN Append(Loop[i - 1], text)
                     ELSE Loop[i - 1]
    IN  Loop[Len(ps)]

(* extractParagraphs *)
extractParagraphs(d) == Slice(ParagraphsPushed(SelectTags(d, {"p"})), ParagraphCap)

(* $(selector).text(): the texts of all the selected elements, joined *)
JoinText(es) ==
    LET Join[i \in 0..Len(es)] == IF i = 0 THEN <<>> ELSE Join[i - 1] \o es[i].text
    IN  Join[Len(es)]

NoTitleFound == <<"N", "o", " ", "t", "i", "t", "l", "e", " ", "f", "o", "u", "n", "d">>

NoDescription == <<"N", "o", " ", "d", "e", "s", "c", "r", "i", "p", "t", "i", "o", "n", " ", "a", "v", "a", "i", "l", "a", "b", "l", "e">>

(* Variant: the fallback is decided before the text is cleaned *)
ExtractTitle_FallbackFirst(d) ==
    cleanText(OrElse(JoinText(SelectTags(d, {"title"})), NoTitleFound))

(* const title = cleanText($('title').text()) || 'No title found' *)
ExtractTitle(d) == OrElse(cleanText(JoinText(SelectTags(d, {"title"}))), NoTitleFound)

(* $(selector).attr('content'): the content of the first selected element *)
FirstContent(es) == IF es = <<>> THEN <<>> ELSE es[1].content

(* description: cleanText(name=description || og:description || sentinel) *)
ExtractDescription(d) ==
    cleanText(
        OrElse(FirstContent(SelectSeq(d, LAMBDA e : e.tag = "meta" /\ e.name = "description")),
        OrElse(FirstContent(SelectSeq(d, LAMBDA e : e.tag = "meta"
                                                      /\ e.property = "og:description")),
               NoDescription)))

(* The extracted fields of scrapeWebpage's result *)
ExtractAll(d, url) ==
    [done |-> TRUE,
     title |-> ExtractTitle(d),
     description |-> ExtractDescription(d),
     metaTags |-> extractMetaTags(d),
     images |-> extractImages(d, UrlOrigin(url)),
     links |-> extractLinks(d, UrlOrigin(url)),
     headings |-> extractHeadings(d),
     paragraphs |-> extractParagraphs(d)]

----------------------------------------------------------------------------
(* The documents the extractor is run on *)

MaxHead == 2          \* elements of a head-only document
MaxBody == 22         \* elements of a body document
MaxPeriod == 3        \* a body document has its second shape at every k-th place, k up to this

Empty == <<>>

(* Decimal digits of i, i < 100 *)
Num(i) == IF i < 10 THEN <<Digits[i + 1]>> ELSE <<Digits[(i \div 10) + 1], Digits[(i % 10) + 1]>>

Rep(c, n) == [i \in 1..n |-> c]

Img(src, dataSrc, dataLazy, alt) ==
    Element("img", "", "", Empty, src, dataSrc, dataLazy, alt, Empty, Empty)

Anchor(href, text) == Element("a", "", "", Empty, Empty, Empty, Empty, Empty, href, text)

TextElement(tag, text) == Element(tag, "", "", Empty, Empty, Empty, Empty, Empty, Empty, text)

(* A meta element; hasContent tells an empty content attribute from none *)
MetaElement(name, property, hasContent, content) ==
    [tag |-> "meta", name |-> name, property |-> property, hasContent |-> hasContent,
     content |-> content, src |-> Empty, dataSrc |-> Empty, dataLazy |-> Empty,
     alt |-> Empty, href |-> Empty, text |-> Empty]

(* The URL of the scraped page *)
PageUrl == <<"h", "t", "t", "p", ":", "/", "/", "h", "/", "d", "i", "r", "/", "p", "a", "g", "e">>

SameAbs == <<"h", "t", "t", "p", ":", "/", "/", "h", "/", "s", "a", "m", "e">>

ImageShapes ==
    {"imgAbs", "imgLazy", "imgDataSrc", "imgSameAbs", "imgSameRel", "imgSameRoot",
     "imgLogo", "imgAltIcon", "imgBad"}

LinkShapes ==
    {"aRoot", "aSameAbs", "aSameRel", "aLen3", "aLen4", "aLen99", "aLen100",
     "aMailto", "aBad", "aNoText"}

HeadingShapes == {"hOk", "hShort", "hThree"}

ParagraphShapes == {"pOk", "p20", "p499", "p500"}

HeadShapes ==
    {"titleHello", "titleBlank", "titleB", "descA", "descBlank", "descNone", "ogDesc",
     "kwA", "kwB", "kwEmpty", "kwProp"}

(* The element of shape sh at place i of a document *)
Shape(sh, i) ==
    CASE sh = "imgAbs" -> Img(<<"h", "t", "t", "p", ":", "/", "/", "c", "d", "n", "/", "i">> \o Num(i) \o <<".", "p", "n", "g">>, Empty, Empty, <<" ", "A", " ", " ", "p", "i", "c", " ">>)
      [] sh = "imgLazy" -> Img(Empty, Empty, <<"l">> \o Num(i) \o <<".", "p", "n", "g">>, Empty)
      [] sh = "imgDataSrc" -> Img(Empty, <<"/", "r">> \o Num(i) \o <<".", "p", "n", "g">>, Empty, <<" ", "A", " ", " ", "p", "i", "c", " ">>)
      [] sh = "imgSameAbs" -> Img(SameAbs \o <<".", "p", "n", "g">>, Empty, Empty, <<"a">> \o Num(i))
      [] sh = "imgSameRel" -> Img(<<"s", "a", "m", "e">> \o <<".", "p", "n", "g">>, Empty, Empty, <<"b">> \o Num(i))
      [] sh = "imgSameRoot" -> Img(<<"/">> \o <<"s", "a", "m", "e">> \o <<".", "p", "n", "g">>, Empty, Empty, <<"c">> \o Num(i))
      [] sh = "imgLogo" -> Img(<<"h", "t", "t", "p", ":", "/", "/", "c", "d", "n", "/", "l", "o", "g", "o">> \o Num(i) \o <<".", "p", "n", "g">>, Empty, Empty, <<" ", "A", " ", " ", "p", "i", "c", " ">>)
      [] sh = "imgAltIcon" -> Img(<<"h", "t", "t", "p", ":", "/", "/", "c", "d", "n", "/", "n">> \o Num(i) \o <<".", "p", "n", "g">>, Empty, Empty, <<"N", "a", "v", " ", "I", "C", "O", "N">>)
      [] sh = "imgBad" -> Img(<<"x", ":", "/", "/", "[">>, Empty, Empty, <<" ", "A", " ", " ", "p", "i", "c", " ">>)
      [] sh = "aRoot" -> Anchor(<<"/", "p">> \o Num(i), <<"P", "a", "g", "e", " ">> \o Num(i))
      [] sh = "aSameAbs" -> Anchor(SameAbs, <<"S", "a", "m", "e", " ", "p", "a", "g", "e">>)
      [] sh = "aSameRel" -> Anchor(<<"s", "a", "m", "e">>, <<"S", "a", "m", "e", " ", "a", "g", "a", "i", "n">>)
      [] sh = "aLen3" -> Anchor(<<"/", "s">> \o Num(i), <<" ", "a", " ", " ", "b", " ">>)
      [] sh = "aLen4" -> Anchor(<<"/", "f">> \o Num(i), <<" ", "a", "b", " ", "\t", " ", "c", " ">>)
      [] sh = "aLen99" -> Anchor(<<"/", "n">> \o Num(i), Rep("x", 99))
      [] sh = "aLen100" -> Anchor(<<"/", "h">> \o Num(i), Rep("x", 100))
      [] sh = "aMailto" -> Anchor(<<"m", "a", "i", "l", "t", "o", ":", "x">> \o Num(i), <<"M", "a", "i", "l", " ", "u", "s">>)
      [] sh = "aBad" -> Anchor(<<"x", ":", "/", "/", "[">>, <<"B", "r", "o", "k", "e", "n", " ", "l", "i", "n", "k">>)
      [] sh = "aNoText" -> Anchor(<<"/", "e">> \o Num(i), <<" ", "\n">>)
      [] sh = "hOk" -> TextElement("h2", <<"H", "e", "a", "d", " ">> \o Num(i))
      [] sh = "hShort" -> TextElement("h3", <<" ", "a", "b", " ">>)
      [] sh = "hThree" -> TextElement("h1", <<"a", "b", "c">>)
      [] sh = "pOk" -> TextElement("p", Num(i) \o Rep("w", 20))
      [] sh = "p20" -> TextElement("p", <<" ">> \o Rep("w", 20) \o <<" ">>)
      [] sh = "p499" -> TextElement("p", Rep("w", 499))
      [] sh = "p500" -> TextElement("p", Rep("w", 500))
      [] sh = "titleHello" -> TextElement("title", <<" ", " ", "H", "e", "l", "l", "o", " ", " ", " ", "W", "o", "r", "l", "d", " ">>)
      [] sh = "titleBlank" -> TextElement("title", <<" ", "\t", " ">>)
      [] sh = "titleB" -> TextElement("title", <<"B">>)
      [] sh = "descA" -> MetaElement("description", "", TRUE, <<" ", "A", " ", " ", "d", "e", "s", "c", " ">>)
      [] sh = "descBlank" -> MetaElement("description", "", TRUE, <<" ", " ">>)
      [] sh = "descNone" -> MetaElement("description", "", FALSE, Empty)
      [] sh = "ogDesc" -> MetaElement("", "og:description", TRUE, <<"O", "g">>)
      [] sh = "kwA" -> MetaElement("keywords", "", TRUE, <<"a">>)
      [] sh = "kwB" -> MetaElement("keywords", "", TRUE, <<"b">>)
      [] sh = "kwEmpty" -> MetaElement("keywords", "", TRUE, Empty)
      [] OTHER -> MetaElement("", "keywords", TRUE, <<"c">>)

(* Head-only documents: every sequence of up to MaxHead head elements *)
HeadDocs ==
    UNION {{[i \in 1..n |-> Shape(f[i], i)] : f \in [1..n -> HeadShapes]} : n \in 0..MaxHead}

(* Body documents: n elements of shape a, with shape b (of the same       *)
(* field) at every k-th place                                              *)
BodyDoc(a, b, k, n) == [i \in 1..n |-> Shape(IF i % k = 0 THEN b ELSE a, i)]

BodyDocs ==
    {BodyDoc(ab[1], ab[2], k, n) :
        ab \in UNION {F \X F : F \in {ImageShapes, LinkShapes, HeadingShapes, ParagraphShapes}},
        k \in 2..MaxPeriod, n \in 1..MaxBody}

Docs == HeadDocs \cup BodyDocs

ServerIdle ==
    /\ scrapedResults = <<>>
    /\ pending = [u \in FetchableUrls |-> 0]
    /\ nreq = 0
    /\ tick = 0
    /\ last = NoResponse
    /\ shownFor = NoneShown

ExtractInit ==
    /\ ServerIdle
    /\ doc \in Docs
    /\ extracted = NoExtract
    /\ client = NoClient
    /\ net = NoNet

(* scrapeWebpage from cheerio.load to the result object *)
Extract ==
    /\ ~extracted.done
    /\ extracted' = ExtractAll(doc, PageUrl)
    /\ UNCHANGED <<serverVars, doc, client, net>>

ExtractNext == Extract

SpecExtract == ExtractInit /\ [][ExtractNext]_vars

----------------------------------------------------------------------------
(* The browser client: the URLScraper class of lines 310-904, one page     *)
(* talking to the server.  One action is one run-to-completion segment of  *)
(* a handler of the page (split at its awaits) or the server handling one  *)
(* of the page's requests.  The page has at most one POST /scrape in       *)
(* flight (the submit button is disabled while it waits), so the server's  *)
(* two segments of that request are taken in one step here.                *)

MaxSubmits == 1       \* scrape requests the page sends per behaviour
MaxTimers == 2        \* auto-hide timers set, or about to be set, at the same time

(* Number of records the cache holds when the page is opened *)
ClientInitSizes == 0..2

(* What the user types into the URL field: a string that is no URL, the    *)
(* URL of the oldest record the cache starts with, and a URL not cached    *)
ClientUrls == {NoScheme(1), Url(1), Url(Capacity + 1)}

(* The content the page's fetches return *)
ClientPage == 1

NoScrape == [state |-> "none", url |-> EmptyUrl, status |-> 0, data |-> NoRecord, error |-> ""]

(* A fetch('/results') of loadHistory; `afterScrape` and `scraped` record   *)
(* the call site: the constructor, or handleSubmit after the scrape of     *)
(* record `scraped`                                                        *)
LoadSent(afterScrape, scraped) ==
    [state |-> "sent", list |-> <<>>, afterScrape |-> afterScrape, scraped |-> scraped]

(* The two message elements, errorMessage and successMessage *)
Messages == {"error", "success"}

NoClick == [clicked |-> FALSE, record |-> NoRecord, saved |-> NoRecord]

NotListed == [from |-> <<>>, afterScrape |-> FALSE, scraped |-> NoRecord]

(* The page after the constructor ran (null is NoRecord) *)
ClientStart ==
    [currentScrapedData |-> NoRecord,
     results |-> NoRecord,
     loading |-> FALSE,
     errorText |-> "", errorHidden |-> TRUE,
     successText |-> "", successHidden |-> TRUE,
     historyHidden |-> TRUE,
     history |-> <<>>,
     totalScrapes |-> 0,
     submits |-> 0,
     listed |-> NotListed,
     click |-> NoClick,
     timers |-> [t \in Messages |-> 0],   \* setTimeout callbacks not yet run, per target
     ended |-> "none"]                     \* history: how the last handleSubmit call ended

(* The constructor has called loadHistory: its fetch is on the way *)
NetStart == [scrape |-> NoScrape, loads |-> <<LoadSent(FALSE, NoRecord)>>, clear |-> "none"]

Hidden(c, t) == IF t = "error" THEN c.errorHidden ELSE c.successHidden

(* Variant: the other message is left as it is *)
showError_KeepsSuccess(c, message) ==
    [c EXCEPT !.errorText = message, !.errorHidden = FALSE]

showError(c, message) ==
    [c EXCEPT !.errorText = message, !.errorHidden = FALSE, !.successHidden = TRUE]

showSuccess(c, message) ==
    [c EXCEPT !.successText = message, !.successHidden = FALSE, !.errorHidden = TRUE]

hideMessages(c) == [c EXCEPT !.errorHidden = TRUE, !.successHidden = TRUE]

(* Variant: the observer sets no timer *)
AutoHide_NoTimer(c, targets) == c

(* The MutationObserver callback of setupAutoHideMessages.  It runs as a   *)
(* microtask when the segment that wrote the class attribute of the        *)
(* elements `targets` has ended, and looks at their classes as they are    *)
(* then: an element that is not hidden gets a setTimeout of 5000 ms.       *)
AutoHide(c, targets) ==
    [c EXCEPT !.timers = [t \in Messages |->
                              IF t \in targets /\ ~Hidden(c, t) THEN @[t] + 1 ELSE @[t]]]

setLoading(c, isLoading) == [c EXCEPT !.loading = isLoading]

(* displayHistory(results), called with a non-empty array: the items the   *)
(* history container lists, each with its download button                  *)
displayHistory(results) == Tail(results)

RemoveAt(s, i) == [j \in 1..(Len(s) - 1) |-> IF j < i THEN s[j] ELSE s[j + 1]]

ClientInit ==
    /\ \E n \in ClientInitSizes : scrapedResults = Loaded(n) /\ tick = n
    /\ pending = [u \in FetchableUrls |-> 0]
    /\ nreq = 0
    /\ last = NoResponse
    /\ shownFor = NoneShown
    /\ doc = <<>>
    /\ extracted = NoExtract
    /\ client = ClientStart
    /\ net = NetStart

TimersSet == client.timers["error"] + client.timers["success"]

(* Requests of the page whose answer will show a message *)
PendingShows ==
    (IF net.scrape.state # "none" THEN 1 ELSE 0) + (IF net.clear # "none" THEN 1 ELSE 0)

(* The user acts only while fewer than MaxTimers timers are set or due *)
CanAct == TimersSet + PendingShows < MaxTimers

(* handleSubmit with an empty input: showError and return *)
HandleSubmitEmpty ==
    /\ ~client.loading
    /\ CanAct
    /\ client' = AutoHide(showError(client, "Please enter a valid URL"), Messages)
    /\ UNCHANGED <<serverVars, doc, extracted, net>>

(* handleSubmit up to `await fetch('/scrape')` *)
HandleSubmit(u) ==
    /\ ~client.loading
    /\ CanAct
    /\ client.submits < MaxSubmits
    /\ ~IsFalsy(u)
    /\ client' = AutoHide([hideMessages(setLoading(client, TRUE)) EXCEPT !.submits = @ + 1],
                           Messages)
    /\ net' = [net EXCEPT !.scrape = [NoScrape EXCEPT !.state = "sent", !.url = u]]
    /\ UNCHANGED <<serverVars, doc, extracted>>

Answer(status, data, error) ==
    [net EXCEPT !.scrape = [@ EXCEPT !.state = "answered", !.status = status,
                                     !.data = data, !.error = error]]

(* POST /scrape: 400 for a string that is no URL *)
ServeScrapeInvalid ==
    /\ net.scrape.state = "sent"
    /\ ~IsValidUrl(net.scrape.url)
    /\ net' = Answer(400, NoRecord, "Invalid URL format")
    /\ UNCHANGED <<serverVars, doc, extracted, client>>

(* POST /scrape: the cached record *)
ServeScrapeCached ==
    /\ net.scrape.state = "sent"
    /\ IsValidUrl(net.scrape.url)
    /\ MapHas(scrapedResults, net.scrape.url)
    /\ net' = Answer(200, MapGet(scrapedResults, net.scrape.url), "")
    /\ UNCHANGED <<serverVars, doc, extracted, client>>

(* POST /scrape: fetched, stored, answered *)
ServeScrapeDone ==
    /\ net.scrape.state = "sent"
    /\ IsValidUrl(net.scrape.url)
    /\ ~MapHas(scrapedResults, net.scrape.url)
    /\ scrapedResults' = Store(scrapedResults, net.scrape.url,
                               ScrapeWebpage(net.scrape.url, ClientPage), tick + 1)
    /\ tick' = tick + 1
    /\ net' = Answer(200, ScrapeWebpage(net.scrape.url, ClientPage), "")
    /\ UNCHANGED <<pending, nreq, last, shownFor, doc, extracted, client>>

(* POST /scrape: the fetch failed, 500 *)
ServeScrapeFail(code) ==
    /\ net.scrape.state = "sent"
    /\ IsValidUrl(net.scrape.url)
    /\ ~MapHas(scrapedResults, net.scrape.url)
    /\ net' = Answer(500, NoRecord, "Failed to scrape webpage")
    /\ UNCHANGED <<serverVars, doc, extracted, client>>

(* handleSubmit after the awaits, response.ok: keep and show the record,   *)
(* call loadHistory (which runs up to its fetch), then the finally block   *)
HandleSubmitDone ==
    /\ net.scrape.state = "answered"
    /\ net.scrape.status = 200
    /\ client' = AutoHide(
                     setLoading(
                         showSuccess([client EXCEPT !.currentScrapedData = net.scrape.data,
                                                    !.results = net.scrape.data,
                                                    !.ended = "ok"],
                                     "Webpage analysis completed successfully!"),
                         FALSE),
                     Messages)
    /\ net' = [net EXCEPT !.scrape = NoScrape,
                          !.loads = Append(@, LoadSent(TRUE, net.scrape.data))]
    /\ UNCHANGED <<serverVars, doc, extracted>>

(* Variant: the finally block is left out *)
HandleSubmitFailed_StaysLoading ==
    /\ net.scrape.state = "answered"
    /\ net.scrape.status # 200
    /\ client' = [client EXCEPT !.errorText = net.scrape.error, !.errorHidden = FALSE,
                                !.successHidden = TRUE, !.ended = "notOk",
                                !.timers["error"] = @ + 1]
    /\ net' = [net EXCEPT !.scrape = NoScrape]
    /\ UNCHANGED <<serverVars, doc, extracted>>

(* handleSubmit after the awaits, !response.ok: the catch and finally blocks *)
HandleSubmitFailed ==
    /\ net.scrape.state = "answered"
    /\ net.scrape.status # 200
    /\ client' = AutoHide(
                     setLoading(
                         showError([client EXCEPT !.ended = "notOk"],
                                   HandleSubmitMessage(net.scrape.status, net.scrape.error)),
                         FALSE),
                     Messages)
    /\ net' = [net EXCEPT !.scrape = NoScrape]
    /\ UNCHANGED <<serverVars, doc, extracted>>

(* fetch('/scrape') rejects: the request or its answer is lost on the way *)
FetchFails ==
    /\ net.scrape.state \in {"sent", "answered"}
    /\ net' = [net EXCEPT !.scrape.state = "rejected"]
    /\ UNCHANGED <<serverVars, doc, extracted, client>>

(* response.json() rejects: the body that arrives is no JSON *)
BodyUnparsable ==
    /\ net.scrape.state = "answered"
    /\ net' = [net EXCEPT !.scrape.state = "unparsable"]
    /\ UNCHANGED <<serverVars, doc, extracted, client>>

(* error.message of the TypeError of fetch and of the SyntaxError of json() *)
ThrownMessage(state) ==
    IF state = "rejected" THEN "Failed to fetch" ELSE "Unexpected token in JSON"

(* handleSubmit after an await that threw: the catch and finally blocks *)
HandleSubmitThrown ==
    /\ net.scrape.state \in {"rejected", "unparsable"}
    /\ client' = AutoHide(
                     setLoading(
                         showError([client EXCEPT !.ended = net.scrape.state],
                                   ThrownMessage(net.scrape.state)),
                         FALSE),
                     Messages)
    /\ net' = [net EXCEPT !.scrape = NoScrape]
    /\ UNCHANGED <<serverVars, doc, extracted>>

(* GET /results for one of the page's loadHistory calls *)
ServeResults(i) ==
    /\ net.loads[i].state = "sent"
    /\ net' = [net EXCEPT !.loads[i].state = "answered",
                          !.loads[i].list = MapValues(scrapedResults)]
    /\ UNCHANGED <<serverVars, doc, extracted, client>>

(* loadHistory after its awaits *)
LoadHistoryDone(i) ==
    LET results == net.loads[i].list
    IN  /\ net.loads[i].state = "answered"
        /\ client' =
              IF Len(results) > 0
              THEN [client EXCEPT !.totalScrapes = Len(results),
                                  !.history = displayHistory(results),
                                  !.historyHidden = FALSE,
                                  !.listed = [from |-> results,
                                              afterScrape |-> net.loads[i].afterScrape,
                                              scraped |-> net.loads[i].scraped]]
              ELSE [client EXCEPT !.totalScrapes = 0, !.historyHidden = TRUE]
        /\ net' = [net EXCEPT !.loads = RemoveAt(@, i)]
        /\ UNCHANGED <<serverVars, doc, extracted>>

(* A click on the download button of history item i: downloadPDF(          *)
(* historyResults[i], button), with jsPDF loaded.  (The button of the      *)
(* results panel gets no listener: getElementById('downloadPdf') finds     *)
(* nothing in the markup of createWebpageDetailsHTML.)                     *)
DownloadHistoryItem(i) ==
    /\ ~client.historyHidden
    /\ CanAct
    /\ client' =
          IF client.currentScrapedData = NoRecord
          THEN AutoHide([showError(client, "No data available for download")
                             EXCEPT !.click = [clicked |-> TRUE, record |-> client.history[i],
                                               saved |-> NoRecord]],
                        Messages)
          ELSE AutoHide([showSuccess(client, "PDF report downloaded successfully")
                             EXCEPT !.click = [clicked |-> TRUE, record |-> client.history[i],
                                               saved |-> client.history[i]]],
                        Messages)
    /\ UNCHANGED <<serverVars, doc, extracted, net>>

(* clearHistory up to `await fetch('/results', DELETE)` *)
ClearHistory ==
    /\ net.clear = "none"
    /\ CanAct
    /\ net' = [net EXCEPT !.clear = "sent"]
    /\ UNCHANGED <<serverVars, doc, extracted, client>>

(* DELETE /results for the page *)
ServeClear ==
    /\ net.clear = "sent"
    /\ scrapedResults' = <<>>
    /\ net' = [net EXCEPT !.clear = "ok"]
    /\ UNCHANGED <<pending, nreq, tick, last, shownFor, doc, extracted, client>>

(* clearHistory after the await *)
ClearHistoryDone ==
    /\ net.clear = "ok"
    /\ client' = AutoHide(
                     showSuccess([client EXCEPT !.historyHidden = TRUE, !.totalScrapes = 0],
                                 "Analysis history cleared successfully!"),
                     Messages)
    /\ net' = [net EXCEPT !.clear = "none"]
    /\ UNCHANGED <<serverVars, doc, extracted>>

(* A timer of setupAutoHideMessages runs: target.classList.add('hidden'),  *)
(* and the observer callback that follows finds the target hidden          *)
TimerFire(t) ==
    /\ client.timers[t] > 0
    /\ client' = AutoHide(
                     [client EXCEPT !.timers[t] = @ - 1,
                                    !.errorHidden = IF t = "error" THEN TRUE ELSE @,
                                    !.successHidden = IF t = "success" THEN TRUE ELSE @],
                     {t})
    /\ UNCHANGED <<serverVars, doc, extracted, net>>

ClientNext ==
    \/ HandleSubmitEmpty
    \/ \E u \in ClientUrls : HandleSubmit(u)
    \/ ServeScrapeInvalid
    \/ ServeScrapeCached
    \/ ServeScrapeDone
    \/ \E code \in ErrorCodes : ServeScrapeFail(code)
    \/ HandleSubmitDone
    \/ HandleSubmitFailed
    \/ FetchFails
    \/ BodyUnparsable
    \/ HandleSubmitThrown
    \/ \E t \in Messages : TimerFire(t)
    \/ \E i \in 1..Len(net.loads) : ServeResults(i)
    \/ \E i \in 1..Len(net.loads) : LoadHistoryDone(i)
    \/ \E i \in 1..Len(client.history) : DownloadHistoryItem(i)
    \/ ClearHistory
    \/ ServeClear
    \/ ClearHistoryDone

SpecClient == ClientInit /\ [][ClientNext]_vars

(* The page while the answers to loadHistory's fetches are still on their  *)
(* way: every handler that touches the message elements or the loading     *)
(* state, with the server behind it                                        *)
MessagesNext ==
    \/ HandleSubmitEmpty
    \/ \E u \in ClientUrls : HandleSubmit(u)
    \/ ServeScrapeInvalid
    \/ ServeScrapeCached
    \/ ServeScrapeDone
    \/ \E code \in ErrorCodes : ServeScrapeFail(code)
    \/ HandleSubmitDone
    \/ HandleSubmitFailed
    \/ FetchFails
    \/ BodyUnparsable
    \/ HandleSubmitThrown
    \/ \E t \in Messages : TimerFire(t)
    \/ ClearHistory
    \/ ServeClear
    \/ ClearHistoryDone

(* The event loop runs every timer that is due: a setTimeout callback is   *)
(* never starved by the page's other tasks.  Nothing is assumed of the     *)
(* user or of the network.                                                 *)
SpecMessages ==
    /\ ClientInit
    /\ [][MessagesNext]_vars
    /\ \A t \in Messages : WF_vars(TimerFire(t))

----------------------------------------------------------------------------
(* Properties *)

(* The key whose entry was created first among those present *)
OldestKey(m) ==
    (CHOOSE e \in {m[i] : i \in 1..Len(m)} :
        \A f \in {m[i] : i \in 1..Len(m)} : e.born <= f.born).key

KeyOrder(m) == [i \in 1..Len(m) |-> m[i].key]

(* C1: when a /scrape request completes its fetch of a URL that is not in  *)
(* a cache of exactly 50 entries, exactly one entry goes, it is the one    *)
(* inserted first among those present, every other entry stays as it was,  *)
(* the new URL's record is present and the cache has 50 entries again.     *)
C1_Case ==
    /\ last.op = "done"
    /\ Len(last.before) = Capacity
    /\ ~MapHas(last.before, last.url)

C1_EvictsOldestOnly ==
    C1_Case =>
        /\ Len(scrapedResults) = Capacity
        /\ Cardinality(MapKeys(scrapedResults)) = Capacity
        /\ MapKeys(last.before) \ MapKeys(scrapedResults) = {OldestKey(last.before)}
        /\ MapKeys(scrapedResults) \ MapKeys(last.before) = {last.url}
        /\ MapGet(scrapedResults, last.url) = last.record
        /\ \A k \in MapKeys(last.before) \cap MapKeys(scrapedResults) :
               MapGet(scrapedResults, k) = MapGet(last.before, k)

C1_Witness == C1_Case /\ last.record.url = last.url

(* C2: storing a record under a URL that is already a key evicts nothing,  *)
(* also in a cache of 50 entries, and leaves the order of the keys as it   *)
(* was.                                                                    *)
C2_Case ==
    /\ last.op = "done"
    /\ MapHas(last.before, last.url)

C2_RestoreKeepsOrder ==
    C2_Case =>
        /\ KeyOrder(scrapedResults) = KeyOrder(last.before)
        /\ \A i \in 1..Len(last.before) : scrapedResults[i].born = last.before[i].born

C2_Witness == C2_Case /\ Len(last.before) = Capacity /\ MapIndex(last.before, last.url) = Capacity

(* C3: between handler segments the cache never holds more than 50         *)
(* entries, and no /health or /results answer reports more than 50.        *)
C3_AtMostCapacity ==
    /\ Len(scrapedResults) <= Capacity
    /\ Len(last.before) <= Capacity
    /\ last.op = "health" => last.size <= Capacity
    /\ last.op = "results" => Len(last.list) <= Capacity

C3_Witness ==
    /\ last.op = "health"
    /\ last.size = Capacity
    /\ tick > Capacity

(* C4: an entry's record is never replaced while the entry stays in the    *)
(* cache: a key present before and after a segment, in the same entry,     *)
(* has the same record.                                                    *)
C4_RecordNeverReplaced ==
    \A i \in 1..Len(last.before) : \A j \in 1..Len(scrapedResults) :
        (last.before[i].key = scrapedResults[j].key
            /\ last.before[i].born = scrapedResults[j].born)
        => last.before[i].value = scrapedResults[j].value

(* C5: a /scrape request whose URL is a key when the handler looks it up   *)
(* answers with the stored record, starts no fetch and leaves the cache    *)
(* as it was.                                                              *)
C5_Case ==
    /\ last.op \in {"hit", "begin"}
    /\ MapHas(last.before, last.url)

C5_HitIsReadOnly ==
    C5_Case =>
        /\ last.op = "hit"
        /\ last.status = 200
        /\ last.record = MapGet(last.before, last.url)
        /\ pending = last.waiting
        /\ scrapedResults = last.before

C5_Witness == C5_Case /\ Len(last.before) > 1 /\ last.record.page > 1

(* C6: a /scrape request answered 400 or 500 leaves the cache as it was.   *)
C6_Case ==
    /\ last.op \in {"reject", "hit", "done", "fail"}
    /\ last.status \in {400, 500}

C6_ErrorLeavesCache == C6_Case => scrapedResults = last.before

C6_Witness ==
    /\ C6_Case
    /\ last.status = 500
    /\ MapHas(last.before, last.url)
    /\ Len(last.before) = Capacity

(* C7: GET /results lists the records of the entries, oldest entry first:  *)
(* the i-th item is the record of the i-th oldest entry; so a URL that was *)
(* removed and scraped again is listed last.                               *)
C7_Case == last.op = "results"

C7_ResultsOldestFirst ==
    C7_Case =>
        /\ Len(last.list) = Len(scrapedResults)
        /\ \A i \in 1..Len(scrapedResults) :
               /\ last.list[i] = scrapedResults[i].value
               /\ Cardinality({j \in 1..Len(scrapedResults) :
                                   scrapedResults[j].born < scrapedResults[i].born}) = i - 1

C7_Witness ==
    /\ C7_Case
    /\ Len(last.list) = Capacity
    /\ last.list[Capacity].url = Url(1)
    /\ last.list[1].url # Url(1)

(* C8: DELETE /results leaves the cache empty; a GET /results handled      *)
(* directly after it lists nothing, and a /scrape request handled directly *)
(* after it for a URL that was cached starts a fetch.                      *)
C8_ClearEmpties ==
    /\ last.op = "clear" => scrapedResults = <<>>
    /\ (last.cleared # <<>> /\ last.op = "results") => last.list = <<>>
    /\ (last.cleared # <<>> /\ last.op \in {"hit", "begin"}
            /\ MapHas(last.cleared, last.url))
        => (last.op = "begin" /\ pending[last.url] = last.waiting[last.url] + 1)

C8_Witness ==
    /\ last.op = "begin"
    /\ Len(last.cleared) = Capacity
    /\ MapHas(last.cleared, last.url)
    /\ scrapedResults = <<>>

(* C9: the client shows a different message for each of the four failure   *)
(* kinds (invalid URL, unreachable host, timeout, non-2xx status).         *)
C9_DistinctMessages ==
    \A k1, k2 \in FailureKinds :
        (k1 # k2 /\ shownFor[k1] # "" /\ shownFor[k2] # "")
        => shownFor[k1] # shownFor[k2]

(* C10: every entry's record has the entry's key as its url and the host   *)
(* of that key as its domain; keys are told apart as strings, so a hit     *)
(* answers with a record of exactly the requested string, and two          *)
(* spellings of one page are two entries.                                  *)
C10_RecordMatchesKey ==
    /\ \A i \in 1..Len(scrapedResults) :
           /\ scrapedResults[i].value.url = scrapedResults[i].key
           /\ scrapedResults[i].value.domain = Hostname(scrapedResults[i].key)
    /\ \A i, j \in 1..Len(scrapedResults) :
           scrapedResults[i].key = scrapedResults[j].key => i = j
    /\ last.op \in {"hit", "done"} => last.record.url = last.url

C10_Witness ==
    /\ MapHas(scrapedResults, Url(1))
    /\ MapHas(scrapedResults, UrlSlash(1))
    /\ MapGet(scrapedResults, Url(1)).domain = MapGet(scrapedResults, UrlSlash(1)).domain
    /\ last.op = "hit"
    /\ last.url = UrlSlash(1)

----------------------------------------------------------------------------
(* Properties of the extractor (specification SpecExtract) *)

BaseUrl == UrlOrigin(PageUrl)

Docs_a == SelectTags(doc, {"a"})

Docs_img == SelectTags(doc, {"img"})

(* C11: whatever the document holds, images has at most 10 items, links    *)
(* at most 20, headings at most 15 and paragraphs at most 10.              *)
C11_WithinCaps ==
    extracted.done =>
        /\ Len(extracted.images) <= ImageCap
        /\ Len(extracted.links) <= LinkCap
        /\ Len(extracted.headings) <= HeadingCap
        /\ Len(extracted.paragraphs) <= ParagraphCap

C11_Witness ==
    /\ extracted.done
    /\ Len(SelectSeq(Docs_a, LAMBDA e : Len(e.text) > 5)) > LinkCap
    /\ Len(extracted.links) = LinkCap

(* s is t with some items left out, the others in t's order *)
IsSubsequence(s, u) ==
    LET Match[i \in 0..Len(u)] ==   \* items of s matched within the first i of u
            IF i = 0 THEN 0
            ELSE LET m == Match[i - 1]
                 IN  IF m < Len(s) /\ s[m + 1] = u[i] THEN m + 1 ELSE m
    IN  Match[Len(u)] = Len(s)

(* The items the elements that pass each field's filter give, in document  *)
(* order, duplicates included                                              *)
HeadingCandidates ==
    LET hs == SelectSeq(doc, LAMBDA e : e.tag \in HeadingTags /\ Len(cleanText(e.text)) > 2)
    IN  [i \in 1..Len(hs) |-> [level |-> hs[i].tag, text |-> cleanText(hs[i].text)]]

ParagraphCandidates ==
    LET ps == SelectSeq(doc, LAMBDA e : e.tag = "p" /\ Len(cleanText(e.text)) > 20
                                          /\ Len(cleanText(e.text)) < 500)
    IN  [i \in 1..Len(ps) |-> cleanText(ps[i].text)]

LinkCandidates ==
    LET as == SelectSeq(Docs_a, LAMBDA e :
                  /\ e.href # <<>>
                  /\ Len(cleanText(e.text)) > 3
                  /\ Len(cleanText(e.text)) < 100
                  /\ ResolveSrc(e.href, BaseUrl, {<<"h", "t", "t", "p">>, <<"m", "a", "i", "l", "t", "o">>, <<"t", "e", "l">>}).ok)
    IN  [i \in 1..Len(as) |->
            [href |-> ResolveSrc(as[i].href, BaseUrl, {<<"h", "t", "t", "p">>, <<"m", "a", "i", "l", "t", "o">>, <<"t", "e", "l">>}).href,
             text |-> cleanText(as[i].text)]]

ImageSource(e) == OrElse(e.src, OrElse(e.dataSrc, e.dataLazy))

ImageCandidates ==
    LET is == SelectSeq(Docs_img, LAMBDA e :
                  /\ ImageSource(e) # <<>>
                  /\ ResolveSrc(ImageSource(e), BaseUrl, {<<"h", "t", "t", "p">>}).ok
                  /\ ImageOk(ResolveSrc(ImageSource(e), BaseUrl, {<<"h", "t", "t", "p">>}).href, e.alt))
    IN  [i \in 1..Len(is) |->
            [src |-> ResolveSrc(ImageSource(is[i]), BaseUrl, {<<"h", "t", "t", "p">>}).href,
             alt |-> cleanText(is[i].alt)]]

FirstN(s, n) == [i \in 1..(IF Len(s) < n THEN Len(s) ELSE n) |-> s[i]]

C13_NoDuplicateSrc ==
    extracted.done =>
        \A i, j \in 1..Len(extracted.images) :
            extracted.images[i].src = extracted.images[j].src => i = j

(* C14: links never holds two items with the same resolved href.           *)
C14_NoDuplicateHref ==
    extracted.done =>
        \A i, j \in 1..Len(extracted.links) :
            extracted.links[i].href = extracted.links[j].href => i = j

(* C15: a kept link has a cleaned text of 4 to 99 characters; an anchor    *)
(* whose cleaned text has 3 or 100 characters gives no link, and one with  *)
(* 4 or 99 characters (and an href that resolves) is among the links       *)
(* unless the cap cut it off.                                              *)
AnchorResolves(e) ==
    e.href # <<>> /\ ResolveSrc(e.href, BaseUrl, {<<"h", "t", "t", "p">>, <<"m", "a", "i", "l", "t", "o">>, <<"t", "e", "l">>}).ok

AnchorHref(e) == ResolveSrc(e.href, BaseUrl, {<<"h", "t", "t", "p">>, <<"m", "a", "i", "l", "t", "o">>, <<"t", "e", "l">>}).href

Squeeze(s) == SelectSeq(s, LAMBDA c : ~IsSpace(c))

(* The length of the text once trimmed and its whitespace runs collapsed:  *)
(* its other characters plus one for each gap between two words            *)
CleanLength(s) ==
    Len(Squeeze(s))
        + Cardinality({i \in 2..Len(s) :
              /\ IsSpace(s[i])
              /\ ~IsSpace(s[i - 1])
              /\ \E j \in (i + 1)..Len(s) : ~IsSpace(s[j])})

C15_LinkTextBounds ==
    extracted.done =>
        /\ \A j \in 1..Len(extracted.links) :
               Len(extracted.links[j].text) >= 4 /\ Len(extracted.links[j].text) <= 99
        /\ \A i \in 1..Len(Docs_a) :
               /\ (AnchorResolves(Docs_a[i]) /\ CleanLength(Docs_a[i].text) \in {3, 100})
                  => ~\E j \in 1..Len(extracted.links) :
                         /\ extracted.links[j].href = AnchorHref(Docs_a[i])
                         /\ extracted.links[j].text = cleanText(Docs_a[i].text)
               /\ (AnchorResolves(Docs_a[i]) /\ CleanLength(Docs_a[i].text) \in {4, 99}
                       /\ Len(extracted.links) < LinkCap)
                  => \E j \in 1..Len(extracted.links) :
                         /\ extracted.links[j].href = AnchorHref(Docs_a[i])
                         /\ Len(extracted.links[j].text) = CleanLength(Docs_a[i].text)

C15_Witness ==
    /\ extracted.done
    /\ \E i \in 1..Len(Docs_a) : CleanLength(Docs_a[i].text) = 3
    /\ \E i \in 1..Len(Docs_a) : CleanLength(Docs_a[i].text) = 4
    /\ \E j \in 1..Len(extracted.links) : Len(extracted.links[j].text) = 4

(* C16: the title is never empty: it is the title text, trimmed and with   *)
(* each run of whitespace made one space, and it is "No title found" when  *)
(* there is no title element or its text is only whitespace.               *)
TitleText == JoinText(SelectTags(doc, {"title"}))

IsCleaned(s) ==
    /\ \A i \in 1..Len(s) : IsSpace(s[i]) => s[i] = " "
    /\ s # <<>> => (s[1] # " " /\ s[Len(s)] # " ")
    /\ \A i \in 2..Len(s) : ~(s[i] = " " /\ s[i - 1] = " ")

C17_DescriptionNeverEmpty ==
    extracted.done => extracted.description # <<>>

(* C18: a key that several meta elements carry, each with a content        *)
(* attribute, maps to the content of the last of them, an empty content    *)
(* included.                                                               *)
MetaKey(e) == IF e.name # "" THEN e.name ELSE e.property

Docs_meta == SelectSeq(doc, LAMBDA e : e.tag = "meta" /\ MetaKey(e) # "" /\ e.hasContent)

C18_LastContentWins ==
    extracted.done =>
        \A i \in 1..Len(Docs_meta) :
            (/\ \E j \in 1..(i - 1) : MetaKey(Docs_meta[j]) = MetaKey(Docs_meta[i])
             /\ ~\E j \in (i + 1)..Len(Docs_meta) : MetaKey(Docs_meta[j]) = MetaKey(Docs_meta[i]))
            => \E k \in 1..Len(extracted.metaTags) :
                   /\ extracted.metaTags[k].key = MetaKey(Docs_meta[i])
                   /\ extracted.metaTags[k].value = Docs_meta[i].content

----------------------------------------------------------------------------
(* Properties of the browser client (specification SpecClient) *)

Listed(rec) == \E j \in 1..Len(client.history) : client.history[j] = rec

(* The history list on display was built by the loadHistory that followed  *)
(* the scrape of the record the results panel shows                        *)
C19_Case ==
    /\ ~client.historyHidden
    /\ client.listed.afterScrape
    /\ client.listed.scraped = client.currentScrapedData
    /\ client.results = client.currentScrapedData
    /\ \E i \in 1..Len(client.listed.from) : client.listed.from[i] = client.currentScrapedData

(* C19: after a successful scrape followed by loadHistory, the record the  *)
(* history list leaves out is the one just scraped and shown in the        *)
(* results panel, and every other cached record is listed.                 *)
C19_HistoryExcludesCurrent ==
    C19_Case =>
        /\ ~Listed(client.currentScrapedData)
        /\ \A i \in 1..Len(client.listed.from) :
               client.listed.from[i] # client.currentScrapedData
                   => Listed(client.listed.from[i])

(* C20: a click on the download button of a history item saves the PDF of  *)
(* that item's record, also when no scrape was submitted since the page    *)
(* was loaded.                                                             *)
C20_HistoryDownloadWorks ==
    client.click.clicked => client.click.saved = client.click.record

(* C21: a message that is visible is hidden again later by its timer       *)
(* alone: under no assumption on the user or the network, only that timers *)
(* that are due run, each visible message leads to that message hidden.    *)
C21_MessagesAutoClear ==
    /\ ~client.errorHidden ~> client.errorHidden
    /\ ~client.successHidden ~> client.successHidden

(* the error message of an empty submit was shown and is hidden again,     *)
(* with no submit sent (so no hideMessages) and no success message ever    *)
(* shown: its timer has run                                                *)
C21_Witness ==
    /\ client.errorText = "Please enter a valid URL"
    /\ client.errorHidden
    /\ client.timers["error"] = 0
    /\ client.submits = 0
    /\ client.successText = ""

CallInProgress == net.scrape.state # "none"

(* C22: the form is in the loading state exactly while a handleSubmit call *)
(* that sent a request has not ended, so every such call leaves it when it *)
(* ends, on each of its paths; a submit with an empty URL neither enters   *)
(* the loading state nor sends a request.                                  *)
C22_LoadingEndsWithCall ==
    /\ [](client.loading <=> CallInProgress)
    /\ [][(CallInProgress /\ ~CallInProgress') => ~client'.loading]_vars
    /\ [][HandleSubmitEmpty => (~client'.loading /\ net' = net)]_vars

(* a call whose response body could not be parsed has ended *)
C22_Witness ==
    /\ client.ended = "unparsable"
    /\ ~CallInProgress
    /\ ~client.loading

(* C23: the error message and the success message are never both visible,  *)
(* and neither a timer nor hideMessages makes a hidden message visible.    *)
C23_NeverBothVisible ==
    /\ [](client.errorHidden \/ client.successHidden)
    /\ [][((\E t \in Messages : TimerFire(t)) \/ (\E u \in ClientUrls : HandleSubmit(u)))
              => /\ client.errorHidden => client'.errorHidden
                 /\ client.successHidden => client'.successHidden]_vars

(* the success message is visible, and the error message, shown before it  *)
(* and its timer still to run, is hidden                                   *)
C23_Witness ==
    /\ ~client.successHidden
    /\ client.errorHidden
    /\ client.errorText # ""
    /\ client.timers["error"] > 0

====
